---- MODULE Spec2Model ----
(***************************************************************************)
(* AES-CMAC (src/cmac/cmac.go), the byte helpers of package common and     *)
(* the AES-SIV AEAD of package siv, as state machines over byte sequences. *)
(* A Go slice is modelled by its contents (a sequence of bytes 0..255) and,*)
(* where aliasing matters, by the spare bytes its backing array holds      *)
(* behind its length.  The block cipher is the crypto/aes of the Go library;*)
(* AES is modelled as FIPS 197 states it.                                  *)
(***************************************************************************)
EXTENDS Integers, Sequences, FiniteSets, TLC

VARIABLES
    c,             \* the cmac context behind the hash.Hash of NewCmac
    written,       \* bytes accepted by Write since NewCmac / the last Reset
    writes,        \* non-empty Write calls made since NewCmac / the last Reset
    lastOp,        \* the last call made on the context
    ret,           \* what that call returned
    sumSinceReset, \* Sum has been called since NewCmac / the last Reset
    hadReset,      \* Reset has been called at least once
    siv,           \* the key given to NewAesSIV and what it returned
    sealed,        \* the result of the last SealWithMultipleAAD call
    buf,           \* the caller's buffer the sealed plaintext is a prefix of
    input,         \* the (ciphertext, AAD list) handed to OpenWithMultipleAAD
    opened         \* the result of the last OpenWithMultipleAAD call

cmacVars == <<c, written, writes, lastOp, ret, sumSinceReset, hadReset>>
sivVars == <<siv, sealed, buf, input, opened>>
vars == <<c, written, writes, lastOp, ret, sumSinceReset, hadReset, siv, sealed, buf, input, opened>>

----------------------------------------------------------------------------
(* Bounds of the model *)

\* Write is offered while the bytes written since Init/Reset stay within this.
MaxWritten == 49
\* Spare capacity (bytes) append may leave behind a reallocated accumulator.
MaxSpare == 1

----------------------------------------------------------------------------
(* Go evaluates an expression once and names its value.  With1(v, F) is F   *)
(* applied to the value of v: the bound variable holds the value, where a   *)
(* LET would hold the expression.                                           *)

With1(v, F(_)) == CHOOSE r \in {F(x) : x \in {v}} : r = r
With2(v, w, F(_, _)) == CHOOSE r \in {F(x, y) : x \in {v}, y \in {w}} : r = r
With3(u, v, w, F(_, _, _)) == CHOOSE r \in {F(x, y, z) : x \in {u}, y \in {v}, z \in {w}} : r = r

\* A table computed once: the function f with every value worked out.
Tabulated(f) == CHOOSE r \in {f} : r = r

----------------------------------------------------------------------------
(* Bytes *)

blockSize == 16
Msb == 128
firstPaddingOctet == 128

RECURSIVE XorNat(_, _)
XorNat(a, b) ==
    IF a = 0 THEN b
    ELSE IF b = 0 THEN a
    ELSE ((a + b) % 2) + 2 * XorNat(a \div 2, b \div 2)

RECURSIVE AndNat(_, _)
AndNat(a, b) ==
    IF a = 0 \/ b = 0 THEN 0
    ELSE ((a % 2) * (b % 2)) + 2 * AndNat(a \div 2, b \div 2)

XorNibble == Tabulated([a \in 0..15 |-> [b \in 0..15 |-> XorNat(a, b)]])
AndNibble == Tabulated([a \in 0..15 |-> [b \in 0..15 |-> AndNat(a, b)]])

\* a ^ b on bytes, tabulated
XorTable ==
    Tabulated([a \in 0..255 |-> [b \in 0..255 |->
                16 * XorNibble[a \div 16][b \div 16] + XorNibble[a % 16][b % 16]]])

\* a ^ b on bytes
XorByte(a, b) == XorTable[a][b]
\* a & b on bytes
AndByte(a, b) == 16 * AndNibble[a \div 16][b \div 16] + AndNibble[a % 16][b % 16]

Zeros(n) == [i \in 1..n |-> 0]

zero == Tabulated(Zeros(16))
rb == Tabulated([i \in 1..16 |-> IF i = 16 THEN 135 ELSE 0])
one == Tabulated([i \in 1..16 |-> IF i = 16 THEN 1 ELSE 0])
mask == Tabulated([i \in 1..16 |-> IF i \in {9, 13} THEN 127 ELSE 255])

\* The value of an expression whose evaluation panicked (no byte is 256).
Panic == <<256>>

----------------------------------------------------------------------------
(* The block cipher (crypto/aes): AES with a 128, 192 or 256-bit key, FIPS 197 *)

SBox ==
    Tabulated([x \in 0..255 |->
    <<
        99, 124, 119, 123, 242, 107, 111, 197,  48,   1, 103,  43, 254, 215, 171, 118,
       202, 130, 201, 125, 250,  89,  71, 240, 173, 212, 162, 175, 156, 164, 114, 192,
       183, 253, 147,  38,  54,  63, 247, 204,  52, 165, 229, 241, 113, 216,  49,  21,
         4, 199,  35, 195,  24, 150,   5, 154,   7,  18, 128, 226, 235,  39, 178, 117,
         9, 131,  44,  26,  27, 110,  90, 160,  82,  59, 214, 179,  41, 227,  47, 132,
        83, 209,   0, 237,  32, 252, 177,  91, 106, 203, 190,  57,  74,  76,  88, 207,
       208, 239, 170, 251,  67,  77,  51, 133,  69, 249,   2, 127,  80,  60, 159, 168,
        81, 163,  64, 143, 146, 157,  56, 245, 188, 182, 218,  33,  16, 255, 243, 210,
       205,  12,  19, 236,  95, 151,  68,  23, 196, 167, 126,  61, 100,  93,  25, 115,
        96, 129,  79, 220,  34,  42, 144, 136,  70, 238, 184,  20, 222,  94,  11, 219,
       224,  50,  58,  10,  73,   6,  36,  92, 194, 211, 172,  98, 145, 149, 228, 121,
       231, 200,  55, 109, 141, 213,  78, 169, 108,  86, 244, 234, 101, 122, 174,   8,
       186, 120,  37,  46,  28, 166, 180, 198, 232, 221, 116,  31,  75, 189, 139, 138,
       112,  62, 181, 102,  72,   3, 246,  14,  97,  53,  87, 185, 134, 193,  29, 158,
       225, 248, 152,  17, 105, 217, 142, 148, 155,  30, 135, 233, 206,  85,  40, 223,
       140, 161, 137,  13, 191, 230,  66, 104,  65, 153,  45,  15, 176,  84, 187,  22
    >>[x + 1]])

\* Multiplication by x and by x + 1 in GF(2^8) modulo x^8 + x^4 + x^3 + x + 1
Mul2 == Tabulated([v \in 0..255 |-> IF v >= 128 THEN XorTable[(2 * v) % 256][27] ELSE 2 * v])
Mul3 == Tabulated([v \in 0..255 |-> XorTable[Mul2[v]][v]])

Rcon == <<1, 2, 4, 8, 16, 32, 64, 128, 27, 54>>

\* The key schedule: the word that follows the words ws = w[0..i-1].
NextWord(ws, nk) ==
    LET i == Len(ws)
        prev == ws[i]
        temp == IF i % nk = 0
                THEN <<XorTable[SBox[prev[2]]][Rcon[i \div nk]], SBox[prev[3]], SBox[prev[4]], SBox[prev[1]]>>
                ELSE IF nk > 6 /\ i % nk = 4
                THEN <<SBox[prev[1]], SBox[prev[2]], SBox[prev[3]], SBox[prev[4]]>>
                ELSE prev
    IN  [j \in 1..4 |-> XorTable[ws[i - nk + 1][j]][temp[j]]]

\* The words ws followed by the k words after them.
RECURSIVE MoreWords(_, _, _)
MoreWords(ws, nk, k) ==
    IF k = 0 THEN ws
    ELSE With1(Append(ws, NextWord(ws, nk)), LAMBDA ws1 : MoreWords(ws1, nk, k - 1))

\* The words ws grown, nk words at a time, to at least `total` words.
RECURSIVE ExpandWords(_, _, _)
ExpandWords(ws, nk, total) ==
    IF Len(ws) >= total THEN ws
    ELSE With1(MoreWords(ws, nk, nk), LAMBDA ws1 : ExpandWords(ws1, nk, total))

\* aes.NewCipher(key): the round keys, 16 bytes each, Nr + 1 of them.
ExpandKey(key) ==
    With2(key, Len(key) \div 4, LAMBDA k, nk :
    With1([i \in 1..nk |-> SubSeq(k, 4 * i - 3, 4 * i)], LAMBDA w0 :
    With1(ExpandWords(w0, nk, 4 * (nk + 7)), LAMBDA ws :
        [r \in 1..(nk + 7) |-> ws[4 * r - 3] \o ws[4 * r - 2] \o ws[4 * r - 1] \o ws[4 * r]])))

\* SubBytes and ShiftRows: the byte of row r, column col (0-based) they yield.
SubShift(st, r, col) == SBox[st[4 * ((col + r) % 4) + r + 1]]

\* One round with MixColumns.
AesRound(st, rk) ==
    [i \in 1..16 |->
        LET r == (i - 1) % 4
            col == (i - 1) \div 4
        IN  XorTable[XorTable[XorTable[Mul2[SubShift(st, r, col)]]
                                      [Mul3[SubShift(st, (r + 1) % 4, col)]]]
                             [XorTable[SubShift(st, (r + 2) % 4, col)]
                                      [SubShift(st, (r + 3) % 4, col)]]]
                    [rk[i]]]

\* The last round, without MixColumns.
AesFinalRound(st, rk) ==
    [i \in 1..16 |-> XorTable[SubShift(st, (i - 1) % 4, (i - 1) \div 4)][rk[i]]]

RECURSIVE AesRounds(_, _, _)
AesRounds(st, rks, r) ==
    With1(st, LAMBDA s :
        IF r = Len(rks) - 1 THEN AesFinalRound(s, rks[r + 1])
        ELSE AesRounds(AesRound(s, rks[r + 1]), rks, r + 1))

\* cipher.Block.Encrypt under the round keys rks.
EncryptBlock(rks, block) ==
    With2(rks, block, LAMBDA ks, b :
        IF b = Panic \/ Len(b) # blockSize THEN Panic
        ELSE AesRounds([i \in 1..16 |-> XorTable[b[i]][ks[1][i]]], ks, 1))

AesEncrypt(key, block) == EncryptBlock(ExpandKey(key), block)

----------------------------------------------------------------------------
(* package common *)

Xor(a, b) ==
    With2(a, b, LAMBDA x, y :
        IF x = Panic \/ y = Panic \/ Len(x) # Len(y) THEN Panic
        ELSE [i \in 1..Len(x) |-> XorByte(x[i], y[i])])

ShiftLeft(data) ==
    With1(data, LAMBDA d :
        IF d = Panic THEN Panic
        ELSE [i \in 1..Len(d) |->
                ((d[i] * 2) % 256)
                + (IF i < Len(d) THEN AndByte(d[i + 1], Msb) \div 128 ELSE 0)])

\* The slice Padding returns.
Padding(data) ==
    With1(Append(data, firstPaddingOctet), LAMBDA result :
        IF Len(result) < blockSize
        THEN result \o Zeros(blockSize - Len(result))
        ELSE result)

\* What Padding leaves in the spare capacity `tail` behind its argument: append
\* writes in place while the backing array has room.
PaddingTail(data, tail) ==
    With3(data, tail, Padding(data), LAMBDA d, t, padded :
        [i \in 1..Len(t) |-> IF Len(d) + i <= Len(padded) THEN padded[Len(d) + i] ELSE t[i]])

----------------------------------------------------------------------------
(* package cmac *)

NoCmac ==
    [aesEncryptor |-> <<>>, key |-> <<>>, state |-> <<>>, accumulator |-> <<>>, tail |-> <<>>,
     finished |-> FALSE, hadData |-> FALSE, k1 |-> <<>>, k2 |-> <<>>, enc |-> 0]

\* <<k1, k2>>
generateSubKey(cx) ==
    With1(EncryptBlock(cx.aesEncryptor, zero), LAMBDA l :
    With1(IF AndByte(l[1], Msb) = Msb THEN Xor(ShiftLeft(l), rb) ELSE ShiftLeft(l), LAMBDA k1 :
    With1(IF AndByte(k1[1], Msb) = Msb THEN Xor(ShiftLeft(k1), rb) ELSE ShiftLeft(k1), LAMBDA k2 :
        <<k1, k2>>)))

\* cx.enc counts the Encrypt calls cx.aesEncryptor serves during one call.
init(cx) ==
    With2(cx, generateSubKey(cx), LAMBDA x, sub :
        [x EXCEPT !.k1 = sub[1],
                  !.k2 = sub[2],
                  !.enc = x.enc + 1,
                  !.accumulator = <<>>,
                  !.tail = <<>>,
                  !.state = Zeros(16),
                  !.finished = FALSE,
                  !.hadData = FALSE])

AesNewCipherOk(key) == Len(key) \in {16, 24, 32}

NewCmac(key) ==
    With1(key, LAMBDA k :
        IF Len(k) \in {16, 24, 32}
        THEN [err |-> "nil",
              h |-> init([NoCmac EXCEPT !.aesEncryptor = ExpandKey(k), !.key = k])]
        ELSE [err |-> "errUnsupportedKeySize", h |-> NoCmac])

\* writeFullBlock as it would be without the Xor into the chaining value.
writeFullBlockUnchained(cx, block) ==
    With1(cx, LAMBDA x :
        [x EXCEPT !.state = EncryptBlock(x.aesEncryptor, block),
                  !.enc = x.enc + 1])

writeFullBlock(cx, block) ==
    With1(cx, LAMBDA x :
        [x EXCEPT !.state = EncryptBlock(x.aesEncryptor, Xor(x.state, block)),
                  !.enc = x.enc + 1])

\* append(b, p...) on a slice b with spare capacity tail; `spare` is the spare
\* capacity of the new backing array when append has to reallocate.
AppendBytes(b, tail, p, spare) ==
    With2(tail, p, LAMBDA t, q :
        IF Len(q) <= Len(t)
        THEN [b |-> b \o q, tail |-> SubSeq(t, Len(q) + 1, Len(t))]
        ELSE [b |-> b \o q, tail |-> Zeros(spare)])

\* The loop of Write: n times, chain the first block and reslice past it.
RECURSIVE WriteLoop(_, _)
WriteLoop(cx, n) ==
    With1(cx, LAMBDA x :
        IF n <= 0 THEN x
        ELSE WriteLoop(
                [writeFullBlock(x, SubSeq(x.accumulator, 1, blockSize))
                    EXCEPT !.accumulator = SubSeq(x.accumulator, blockSize + 1, Len(x.accumulator))],
                n - 1))

\* Write as it would be if its loop ran numFullBlocks times, leaving no block
\* for the final stage.
WriteAllBlocks(cx, p, spare) ==
    With2(cx, p, LAMBDA x, q :
        IF x.finished THEN [c |-> x, n |-> 0, err |-> "errAlreadyFinished"]
        ELSE IF Len(q) = 0 THEN [c |-> x, n |-> 0, err |-> "nil"]
        ELSE
        With1(AppendBytes(x.accumulator, x.tail, q, spare), LAMBDA grown :
        With1([x EXCEPT !.hadData = TRUE,
                        !.accumulator = grown.b,
                        !.tail = grown.tail], LAMBDA c1 :
        With1(Len(c1.accumulator) \div blockSize, LAMBDA numFullBlocks :
            [c |-> IF numFullBlocks <= 1 THEN c1 ELSE WriteLoop(c1, numFullBlocks),
             n |-> Len(q),
             err |-> "nil"]))))

Write(cx, p, spare) ==
    With2(cx, p, LAMBDA x, q :
        IF x.finished THEN [c |-> x, n |-> 0, err |-> "errAlreadyFinished"]
        ELSE IF Len(q) = 0 THEN [c |-> x, n |-> 0, err |-> "nil"]
        ELSE
        With1(AppendBytes(x.accumulator, x.tail, q, spare), LAMBDA grown :
        With1([x EXCEPT !.hadData = TRUE,
                        !.accumulator = grown.b,
                        !.tail = grown.tail], LAMBDA c1 :
        With1(Len(c1.accumulator) \div blockSize, LAMBDA numFullBlocks :
            [c |-> IF numFullBlocks <= 1 THEN c1 ELSE WriteLoop(c1, numFullBlocks - 1),
             n |-> Len(q),
             err |-> "nil"]))))

\* Sum(nil).  The receiver is a copy of the context: self is that copy when Sum
\* returns, tail is what the call leaves in the spare capacity of the backing
\* array the copy shares with the context, padLen the length of the slice handed
\* to Padding (-1: Padding is not called).
Sum(cx) ==
    With1(cx, LAMBDA x :
    With1(IF x.hadData /\ Len(x.accumulator) # blockSize /\ Len(x.accumulator) > blockSize
          THEN [writeFullBlock(x, SubSeq(x.accumulator, 1, blockSize))
                  EXCEPT !.accumulator = SubSeq(x.accumulator, blockSize + 1, Len(x.accumulator))]
          ELSE x, LAMBDA drained :
    With2(IF x.hadData THEN drained.accumulator ELSE <<>>,
          x.hadData /\ Len(x.accumulator) = blockSize, LAMBDA padArg, useK1 :
    With1(IF useK1 THEN Xor(x.accumulator, x.k1) ELSE Xor(Padding(padArg), x.k2), LAMBDA last :
        [tag |-> EncryptBlock(x.aesEncryptor, Xor(last, drained.state)),
         self |-> [drained EXCEPT !.accumulator = last, !.finished = TRUE, !.enc = drained.enc + 1],
         tail |-> IF x.hadData /\ ~useK1 THEN PaddingTail(padArg, x.tail) ELSE x.tail,
         padLen |-> IF useK1 THEN -1 ELSE Len(padArg)]))))

\* Reset as it would be if it cleared the fields without calling init.
ResetFieldsOnly(cx) ==
    [cx EXCEPT !.accumulator = <<>>,
               !.tail = <<>>,
               !.state = Zeros(16),
               !.finished = FALSE,
               !.hadData = FALSE]

Reset(cx) == init(cx)

\* The package-level cmac.Sum(key, data).
CmacSum(key, data) ==
    With2(NewCmac(key), data, LAMBDA r, d :
        IF d = Panic \/ r.err # "nil" THEN Panic
        ELSE With1(Write(r.h, d, 0), LAMBDA w :
                IF w.err # "nil" THEN Panic ELSE Sum(w.c).tag))

----------------------------------------------------------------------------
(* package siv *)

\* A nil byte slice.
Nil == <<>>

xorEnd(a, b) ==
    With2(a, b, LAMBDA x, y :
        IF x = Panic \/ y = Panic \/ Len(x) < Len(y) THEN Panic
        ELSE With1(Len(x) - Len(y), LAMBDA offset :
                [i \in 1..Len(x) |->
                    IF i <= offset THEN x[i] ELSE XorByte(x[i], y[i - offset])]))

dbl(d) ==
    With1(d, LAMBDA x :
        IF x = Panic THEN Panic
        ELSE IF AndByte(x[1], Msb) = Msb THEN Xor(ShiftLeft(x), rb) ELSE ShiftLeft(x))

bitAnd(a, b) ==
    With2(a, b, LAMBDA x, y :
        IF x = Panic \/ y = Panic \/ Len(x) # Len(y) THEN Panic
        ELSE [i \in 1..Len(x) |-> AndByte(x[i], y[i])])

\* The loop of s2v as it would be without dbl: a plain Xor of the elements' MACs.
RECURSIVE s2vLoopNoDbl(_, _, _, _)
s2vLoopNoDbl(key, d, aad, i) ==
    IF i > Len(aad) THEN d
    ELSE With1(Xor(d, CmacSum(key, aad[i])), LAMBDA d1 : s2vLoopNoDbl(key, d1, aad, i + 1))

\* The loop of s2v from index i on (1-based): d after the last AAD element.
RECURSIVE s2vLoop(_, _, _, _)
s2vLoop(key, d, aad, i) ==
    IF i > Len(aad) THEN d
    ELSE With1(Xor(dbl(d), CmacSum(key, aad[i])), LAMBDA d1 : s2vLoop(key, d1, aad, i + 1))

s2v(key, aad, plaintext) ==
    With3(key, aad, plaintext, LAMBDA k, ad, pt :
        IF Len(ad) = 0 THEN CmacSum(k, one)
        ELSE With1(CmacSum(k, zero), LAMBDA d0 :
             With1(s2vLoop(k, d0, ad, 1), LAMBDA d :
             With1(IF Len(pt) >= 16 THEN xorEnd(pt, d) ELSE Xor(dbl(d), Padding(pt)), LAMBDA t :
                CmacSum(k, t)))))

\* What s2v leaves in the spare capacity `tail` behind the plaintext slice.
s2vTail(aad, plaintext, tail) ==
    IF Len(aad) = 0 \/ Len(plaintext) >= 16 THEN tail
    ELSE PaddingTail(plaintext, tail)

\* crypto/cipher CTR: the 16-byte big-endian counter iv + n.
RECURSIVE CtrAdd(_, _)
CtrAdd(iv, n) ==
    With1(iv, LAMBDA v :
        IF n = 0 THEN v
        ELSE CtrAdd([i \in 1..16 |->
                        IF \A j \in (i + 1)..16 : v[j] = 255 THEN (v[i] + 1) % 256 ELSE v[i]],
                    n - 1))

\* cipher.NewCTR(aes.NewCipher(key), iv).XORKeyStream(dst, src): dst.
XORKeyStream(key, iv, src) ==
    With3(key, iv, src, LAMBDA k, v, sr :
        IF v = Panic \/ ~AesNewCipherOk(k) THEN Panic
        ELSE With1(ExpandKey(k), LAMBDA aesEcb :
             With1([j \in 0..((Len(sr) - 1) \div 16) |-> EncryptBlock(aesEcb, CtrAdd(v, j))], LAMBDA ks :
                [i \in 1..Len(sr) |-> XorByte(sr[i], ks[(i - 1) \div 16][((i - 1) % 16) + 1])])))

\* NewAesSIV as it would be if it took over the key sizes of NewCmac as well.
NewAesSIVCmacSizes(key) ==
    IF Len(key) \in {16, 24, 32, 48, 64}
    THEN [key |-> key, err |-> "nil"]
    ELSE [key |-> <<>>, err |-> "errKeySizeNotSupported"]

NewAesSIV(key) ==
    IF Len(key) \in {32, 48, 64}
    THEN [key |-> key, err |-> "nil"]
    ELSE [key |-> <<>>, err |-> "errKeySizeNotSupported"]

\* SealWithMultipleAAD(nil, plaintext, additionalData) where plaintext has the
\* spare capacity `tail`: the returned slice and what is left in that capacity.
SealWithMultipleAAD(a, plaintext, tail, additionalData) ==
    With2(SubSeq(a.key, 1, Len(a.key) \div 2),
          SubSeq(a.key, (Len(a.key) \div 2) + 1, Len(a.key)), LAMBDA sivKey, encKey :
    With1(s2v(sivKey, additionalData, plaintext), LAMBDA v :
    With1(bitAnd(v, mask), LAMBDA iv :
    With1(XORKeyStream(encKey, iv, plaintext), LAMBDA ciphertext :
        [out |-> IF v = Panic \/ ciphertext = Panic THEN Panic ELSE v \o ciphertext,
         tail |-> s2vTail(additionalData, plaintext, tail)]))))

\* OpenWithMultipleAAD as it would be if it returned the decrypted bytes along
\* with errIntegrityError.
OpenReturnsUnverified(a, ciphertext, additionalData) ==
    IF Len(ciphertext) < blockSize + 1
    THEN [plaintext |-> Nil, err |-> "errInvalidCiphertextLength"]
    ELSE
    With2(SubSeq(ciphertext, 1, blockSize),
          SubSeq(ciphertext, blockSize + 1, Len(ciphertext)), LAMBDA v, cc :
    With2(SubSeq(a.key, 1, Len(a.key) \div 2),
          SubSeq(a.key, (Len(a.key) \div 2) + 1, Len(a.key)), LAMBDA k1, k2 :
    With1(bitAnd(v, mask), LAMBDA iv :
    With1(XORKeyStream(k2, iv, cc), LAMBDA plaintext :
    With1(s2v(k1, additionalData, plaintext), LAMBDA t :
        IF plaintext = Panic \/ t = Panic THEN [plaintext |-> Panic, err |-> "panic"]
        ELSE IF t = v THEN [plaintext |-> plaintext, err |-> "nil"]
        ELSE [plaintext |-> plaintext, err |-> "errIntegrityError"])))))

\* OpenWithMultipleAAD(nil, ciphertext, additionalData)
OpenWithMultipleAAD(a, ciphertext, additionalData) ==
    IF Len(ciphertext) < blockSize + 1
    THEN [plaintext |-> Nil, err |-> "errInvalidCiphertextLength"]
    ELSE
    With2(SubSeq(ciphertext, 1, blockSize),
          SubSeq(ciphertext, blockSize + 1, Len(ciphertext)), LAMBDA v, cc :
    With2(SubSeq(a.key, 1, Len(a.key) \div 2),
          SubSeq(a.key, (Len(a.key) \div 2) + 1, Len(a.key)), LAMBDA k1, k2 :
    With1(bitAnd(v, mask), LAMBDA iv :
    With1(XORKeyStream(k2, iv, cc), LAMBDA plaintext :
    With1(s2v(k1, additionalData, plaintext), LAMBDA t :
        IF plaintext = Panic \/ t = Panic THEN [plaintext |-> Panic, err |-> "panic"]
        ELSE IF t = v THEN [plaintext |-> plaintext, err |-> "nil"]
        ELSE [plaintext |-> Nil, err |-> "errIntegrityError"])))))

----------------------------------------------------------------------------
(* Inputs *)

\* n bytes, the i-th being (seed + 37 i) mod 256.
Bytes(n, seed) == [i \in 1..n |-> (seed + 37 * i) % 256]

\* Keys NewCmac accepts: 16, 24 and 32 bytes.
MacKeys == {Bytes(16, 1), Bytes(24, 2), Bytes(32, 3)}

\* What a call of Write is given: nothing, one byte short of a block, a block,
\* one byte more than two blocks.
Chunks == {Bytes(0, 0), Bytes(15, 7), Bytes(16, 9), Bytes(33, 11)}

\* Keys handed to NewAesSIV: the three supported lengths and unsupported ones
\* (empty, one AES key, one byte short or long, 24 bytes, one byte too long).
SivKeyLens == {0, 16, 24, 31, 32, 33, 48, 64, 65}
SivKeys == {Bytes(n, n) : n \in SivKeyLens}

\* AAD lists: the empty list, a list with an empty element, multi-element lists.
AadLists ==
    { <<>>,
      << <<>> >>,
      << Bytes(1, 21), Bytes(17, 23) >>,
      << Bytes(1, 21), <<>>, Bytes(2, 25) >> }

\* The caller's buffers: <<length of the plaintext, capacity behind it>>.
PlainBufs == {<<0, 0>>, <<1, 0>>, <<1, 2>>, <<16, 0>>, <<17, 2>>}

\* Bits flipped in a byte when tampering: the lowest and the highest.
FlipBits == {1, 128}
\* Bytes of the synthetic IV tampered with: the ends, and a byte whose highest
\* bit the counter mask clears.
IvBytes == {1, 9, 16}
\* Bytes of the ciphertext body tampered with: the ends of its first block and
\* the first byte of its second.
BodyBytes == {17, 32, 33}
\* Bytes of an AAD element tampered with.
AadBytes == {1, 17}

FlipBit(b, i, bit) == [b EXCEPT ![i] = XorByte(b[i], bit)]

----------------------------------------------------------------------------
(* The CMAC context: Write, Sum and Reset in any order *)

NoRet == [n |-> 0, err |-> "nil", tag |-> <<>>, enc |-> 0, padLen |-> -1]
NoSiv == [made |-> FALSE, given |-> <<>>, key |-> <<>>, err |-> "nil"]
NoSealed == [done |-> FALSE, aad |-> <<>>, plaintext |-> <<>>, out |-> <<>>]
NoBuf == [before |-> <<>>, after |-> <<>>]
NoInput == [ct |-> <<>>, aad |-> <<>>, tamper |-> "none"]
NoOpened == [done |-> FALSE, plaintext |-> <<>>, err |-> "nil"]

InitCmac ==
    /\ \E key \in MacKeys :
       \E r \in {NewCmac(key)} :
        /\ c = [r.h EXCEPT !.enc = 0]
        /\ ret = [NoRet EXCEPT !.err = r.err, !.enc = r.h.enc]
    /\ written = <<>>
    /\ writes = 0
    /\ lastOp = "NewCmac"
    /\ sumSinceReset = FALSE
    /\ hadReset = FALSE
    /\ siv = NoSiv
    /\ sealed = NoSealed
    /\ buf = NoBuf
    /\ input = NoInput
    /\ opened = NoOpened

DoWrite(p, spare) ==
    /\ Len(written) + Len(p) <= MaxWritten
    /\ \E r \in {Write(c, p, spare)} :
           /\ c' = [r.c EXCEPT !.enc = 0]
           /\ ret' = [NoRet EXCEPT !.n = r.n, !.err = r.err, !.enc = r.c.enc]
           /\ written' = IF r.err = "nil" THEN written \o p ELSE written
    /\ writes' = IF Len(p) > 0 THEN writes + 1 ELSE writes
    /\ lastOp' = "Write"
    /\ UNCHANGED <<sumSinceReset, hadReset>>
    /\ UNCHANGED sivVars

DoSum ==
    /\ \E r \in {Sum(c)} :
           /\ c' = [c EXCEPT !.tail = r.tail]
           /\ ret' = [NoRet EXCEPT !.tag = r.tag, !.enc = r.self.enc, !.padLen = r.padLen]
    /\ lastOp' = "Sum"
    /\ sumSinceReset' = TRUE
    /\ UNCHANGED <<written, writes, hadReset>>
    /\ UNCHANGED sivVars

DoReset ==
    /\ \E r \in {Reset(c)} :
           /\ c' = [r EXCEPT !.enc = 0]
           /\ ret' = [NoRet EXCEPT !.enc = r.enc]
    /\ lastOp' = "Reset"
    /\ written' = <<>>
    /\ writes' = 0
    /\ sumSinceReset' = FALSE
    /\ hadReset' = TRUE
    /\ UNCHANGED sivVars

NextCmac ==
    \/ \E p \in Chunks, spare \in 0..MaxSpare : DoWrite(p, spare)
    \/ DoSum
    \/ DoReset

SpecCmac == InitCmac /\ [][NextCmac]_vars

----------------------------------------------------------------------------
(* The AEAD: NewAesSIV, Seal, one tampering of what Seal returned, Open *)

Init ==
    /\ c = NoCmac
    /\ written = <<>>
    /\ writes = 0
    /\ lastOp = "none"
    /\ ret = NoRet
    /\ sumSinceReset = FALSE
    /\ hadReset = FALSE
    /\ siv = NoSiv
    /\ sealed = NoSealed
    /\ buf = NoBuf
    /\ input = NoInput
    /\ opened = NoOpened

DoNewAesSIV(key) ==
    /\ ~siv.made
    /\ siv' = [made |-> TRUE, given |-> key, key |-> NewAesSIV(key).key, err |-> NewAesSIV(key).err]
    /\ UNCHANGED <<sealed, buf, input, opened>>
    /\ UNCHANGED cmacVars

\* Seal the first n bytes of the caller's buffer b.
DoSeal(aad, b, n) ==
    /\ siv.made /\ siv.err = "nil" /\ ~sealed.done
    /\ n <= Len(b)
    /\ \E plaintext \in {SubSeq(b, 1, n)} :
       \E r \in {SealWithMultipleAAD(siv, plaintext, SubSeq(b, n + 1, Len(b)), aad)} :
           /\ sealed' = [done |-> TRUE, aad |-> aad, plaintext |-> plaintext, out |-> r.out]
           /\ buf' = [before |-> b, after |-> plaintext \o r.tail]
           /\ input' = [ct |-> r.out, aad |-> aad, tamper |-> "none"]
    /\ UNCHANGED <<siv, opened>>
    /\ UNCHANGED cmacVars

CanTamper == sealed.done /\ sealed.out # Panic /\ ~opened.done /\ input.tamper = "none"

\* Flip one bit of the synthetic IV ct[:16].
FlipIV(i, bit) ==
    /\ CanTamper
    /\ i \in 1..blockSize
    /\ input' = [input EXCEPT !.ct = FlipBit(input.ct, i, bit), !.tamper = "iv"]
    /\ UNCHANGED <<siv, sealed, buf, opened>>
    /\ UNCHANGED cmacVars

\* Flip one bit of the ciphertext body ct[16:].
FlipBody(i, bit) ==
    /\ CanTamper
    /\ i \in (blockSize + 1)..Len(input.ct)
    /\ input' = [input EXCEPT !.ct = FlipBit(input.ct, i, bit), !.tamper = "body"]
    /\ UNCHANGED <<siv, sealed, buf, opened>>
    /\ UNCHANGED cmacVars

\* Flip one bit of one AAD element.
FlipAad(j, i, bit) ==
    /\ CanTamper
    /\ j \in 1..Len(input.aad)
    /\ i \in 1..Len(input.aad[j])
    /\ input' = [input EXCEPT !.aad[j] = FlipBit(input.aad[j], i, bit), !.tamper = "aad"]
    /\ UNCHANGED <<siv, sealed, buf, opened>>
    /\ UNCHANGED cmacVars

\* Exchange two AAD elements whose contents differ.
SwapAad(i, j) ==
    /\ CanTamper
    /\ i \in 1..Len(input.aad) /\ j \in 1..Len(input.aad) /\ i < j
    /\ input.aad[i] # input.aad[j]
    /\ input' = [input EXCEPT !.aad[i] = input.aad[j], !.aad[j] = input.aad[i], !.tamper = "swap"]
    /\ UNCHANGED <<siv, sealed, buf, opened>>
    /\ UNCHANGED cmacVars

\* Hand Open only the first n bytes of what Seal returned.
Truncate(n) ==
    /\ CanTamper
    /\ n < Len(input.ct)
    /\ input' = [input EXCEPT !.ct = SubSeq(input.ct, 1, n), !.tamper = "truncate"]
    /\ UNCHANGED <<siv, sealed, buf, opened>>
    /\ UNCHANGED cmacVars

DoOpen ==
    /\ sealed.done /\ sealed.out # Panic /\ ~opened.done
    /\ \E r \in {OpenWithMultipleAAD(siv, input.ct, input.aad)} :
           opened' = [done |-> TRUE, plaintext |-> r.plaintext, err |-> r.err]
    /\ UNCHANGED <<siv, sealed, buf, input>>
    /\ UNCHANGED cmacVars

Next ==
    \/ \E key \in SivKeys : DoNewAesSIV(key)
    \/ \E aad \in AadLists, pb \in PlainBufs : DoSeal(aad, Bytes(pb[1] + pb[2], 5), pb[1])
    \/ \E i \in IvBytes, bit \in FlipBits : FlipIV(i, bit)
    \/ \E i \in BodyBytes, bit \in FlipBits : FlipBody(i, bit)
    \/ \E j \in 1..3, i \in AadBytes, bit \in FlipBits : FlipAad(j, i, bit)
    \/ \E i \in 1..3, j \in 1..3 : SwapAad(i, j)
    \/ \E n \in {0, 16, 17} : Truncate(n)
    \/ DoOpen

Spec == Init /\ [][Next]_vars

----------------------------------------------------------------------------
(* CMAC as RFC 4493 states it, on the whole message *)

\* Multiplication by x in GF(2^128) modulo x^128 + x^7 + x^2 + x + 1
RefDouble(b) ==
    With1(b, LAMBDA v :
        [i \in 1..16 |-> XorByte(((2 * v[i]) % 256) + (IF i < 16 THEN v[i + 1] \div 128 ELSE 0),
                                 IF i = 16 /\ v[1] >= 128 THEN 135 ELSE 0)])

\* K1 = double(L), K2 = double(K1), L the encryption of the zero block
RefSubkeys(key) ==
    With1(RefDouble(AesEncrypt(key, Zeros(16))), LAMBDA k1 : <<k1, RefDouble(k1)>>)

RefPad(tail) == tail \o <<128>> \o Zeros(15 - Len(tail))

\* The chaining value after the first n blocks of m.
RECURSIVE RefChain(_, _, _)
RefChain(key, m, n) ==
    IF n = 0 THEN Zeros(16)
    ELSE With1(RefChain(key, m, n - 1), LAMBDA x :
            AesEncrypt(key, Xor(x, SubSeq(m, 16 * (n - 1) + 1, 16 * n))))

RefCmac(key, m) ==
    With3(RefSubkeys(key),
          IF Len(m) = 0 THEN 1 ELSE (Len(m) + 15) \div 16,
          m, LAMBDA sub, nb, msg :
    With2(SubSeq(msg, 16 * (nb - 1) + 1, Len(msg)), RefChain(key, msg, nb - 1), LAMBDA tail, x :
    With1(IF Len(msg) > 0 /\ Len(msg) % 16 = 0
          THEN Xor(tail, sub[1])
          ELSE Xor(RefPad(tail), sub[2]), LAMBDA last :
        AesEncrypt(key, Xor(x, last)))))

----------------------------------------------------------------------------
(* Claims about the CMAC context (SpecCmac) *)

\* C4: Sum marks the context finalized, and from then on, until Reset, every
\* Write fails with errAlreadyFinished, returns 0 and leaves the context as it was.
C4_FinalizedAfterSum ==
    /\ sumSinceReset => c.finished
    /\ (sumSinceReset /\ lastOp = "Write") => (ret.err = "errAlreadyFinished" /\ ret.n = 0)

C7_ChunkingIndependent ==
    lastOp = "Sum" =>
        /\ ret.tag = CmacSum(c.key, written)
        /\ ret.tag = RefCmac(c.key, written)

C7_Witness == lastOp = "Sum" /\ writes = 3 /\ written = Bytes(15, 7) \o Bytes(16, 9) \o Bytes(16, 9)

\* C8: after n bytes written the buffer holds n bytes if n < 32 and 16 + n mod 16
\* otherwise; it is at most 31 bytes long and non-empty exactly when hadData is
\* set; Sum pads only a tail shorter than 16 bytes and no Xor panics.
C8_BufferRetention ==
    /\ Len(c.accumulator) =
          IF Len(written) < 32 THEN Len(written) ELSE 16 + (Len(written) % 16)
    /\ Len(c.accumulator) <= 31
    /\ (Len(c.accumulator) > 0) <=> c.hadData
    /\ c.state # Panic /\ Len(c.state) = 16
    /\ lastOp = "Sum" => (ret.tag # Panic /\ ret.padLen < 16)

C8_Witness == lastOp = "Sum" /\ Len(written) = 49 /\ ret.padLen = 1

----------------------------------------------------------------------------
(* Claims about the AEAD (Spec) *)

MacKeyOf(a) == SubSeq(a.key, 1, Len(a.key) \div 2)
EncKeyOf(a) == SubSeq(a.key, (Len(a.key) \div 2) + 1, Len(a.key))

\* C1: Open of what Seal returned for a plaintext of at least one byte, with one
\* bit flipped in the body, in the synthetic IV or in an AAD element, fails with
\* errIntegrityError.
C1_TamperDetected ==
    (opened.done /\ input.tamper \in {"iv", "body", "aad"} /\ Len(sealed.plaintext) >= 1)
        => opened.err = "errIntegrityError"

\* C2: Open of what Seal returned, with the AAD list given to Seal, succeeds and
\* returns the plaintext.
C2_RoundTrip ==
    (opened.done /\ input.tamper = "none")
        => (opened.err = "nil" /\ opened.plaintext = sealed.plaintext)

\* C3: Open fails with errInvalidCiphertextLength exactly when its input is
\* shorter than 17 bytes, with errIntegrityError when the recomputed V' differs
\* from input[:16]; a failing Open returns nil, and the decrypted bytes are
\* returned only when V' = V.
C3_OpenVerifiedOnly ==
    opened.done =>
        /\ opened.err \in {"nil", "errInvalidCiphertextLength", "errIntegrityError"}
        /\ (opened.err = "errInvalidCiphertextLength") <=> (Len(input.ct) < 17)
        /\ opened.err # "nil" => opened.plaintext = Nil
        /\ Len(input.ct) >= 17 =>
            With1(SubSeq(input.ct, 1, 16), LAMBDA v :
            With1(XORKeyStream(EncKeyOf(siv), bitAnd(v, mask),
                               SubSeq(input.ct, 17, Len(input.ct))), LAMBDA pt :
            With1(s2v(MacKeyOf(siv), input.aad, pt), LAMBDA v2 :
                /\ v2 # v => opened.err = "errIntegrityError"
                /\ v2 = v => (opened.err = "nil" /\ opened.plaintext = pt))))

C3_Witness == opened.done /\ input.tamper = "iv" /\ opened.err = "errIntegrityError"

\* The key lengths, up to one byte more than the longest SIV key, NewCmac accepts.
NewCmacKeyLens == {n \in 0..65 : NewCmac(Zeros(n)).err = "nil"}

\* C6: NewAesSIV succeeds exactly for keys of 32, 48 or 64 bytes and fails with
\* errKeySizeNotSupported otherwise; the halves of an accepted key have a length
\* NewCmac and aes.NewCipher accept (NewCmac accepts exactly 16, 24 and 32), so
\* neither Seal nor Open panics.
C6_KeySizes ==
    /\ NewCmacKeyLens = {16, 24, 32}
    /\ siv.made =>
        /\ (siv.err = "nil") <=> (Len(siv.given) \in {32, 48, 64})
        /\ siv.err # "nil" => siv.err = "errKeySizeNotSupported"
        /\ siv.err = "nil" =>
            /\ siv.key = siv.given
            /\ Len(MacKeyOf(siv)) \in {16, 24, 32}
            /\ Len(EncKeyOf(siv)) \in {16, 24, 32}
            /\ NewCmac(MacKeyOf(siv)).err = "nil"
            /\ AesNewCipherOk(EncKeyOf(siv))
    /\ sealed.done => sealed.out # Panic
    /\ opened.done => opened.err # "panic"

C6_Witness == opened.done /\ Len(siv.given) = 48 /\ opened.err = "nil"

\* D after the first i AAD elements, folded left to right.
RECURSIVE RefD(_, _, _)
RefD(key, aad, i) ==
    IF i = 0 THEN CmacSum(key, zero)
    ELSE With1(RefD(key, aad, i - 1), LAMBDA d :
            With1(ShiftLeft(d), LAMBDA s :
                Xor(IF d[1] >= 128 THEN Xor(s, rb) ELSE s, CmacSum(key, aad[i]))))

\* C9: for a non-empty AAD list V = CMAC(MacKey, T), T built from the message
\* and the D folded left to right over the list; exchanging two elements that
\* differ yields another V, and Open with the reordered list fails.
C9_AadOrderBound ==
    /\ (sealed.done /\ input.tamper = "none" /\ ~opened.done /\ Len(sealed.aad) > 0) =>
          With1(RefD(MacKeyOf(siv), sealed.aad, Len(sealed.aad)), LAMBDA d :
              SubSeq(sealed.out, 1, 16) =
                  CmacSum(MacKeyOf(siv),
                          IF Len(sealed.plaintext) >= 16
                          THEN xorEnd(sealed.plaintext, d)
                          ELSE Xor(dbl(d), Padding(sealed.plaintext))))
    /\ (sealed.done /\ input.tamper = "swap") =>
          s2v(MacKeyOf(siv), input.aad, sealed.plaintext) # SubSeq(sealed.out, 1, 16)
    /\ (opened.done /\ input.tamper = "swap") => opened.err # "nil"

C9_Witness ==
    /\ opened.done /\ input.tamper = "swap" /\ Len(input.aad) = 3
    /\ opened.err = "errIntegrityError"

\* C10: Seal leaves every byte of the caller's buffer, inside and beyond the
\* plaintext's length, as it was.
C10_CallerBufferUnchanged == sealed.done => buf.after = buf.before

====
